---- MODULE Spec2Model ----
(***************************************************************************)
(* Model of the crawl engine and fetcher of Tools/UEDocsScraper/           *)
(* ue_docs_scraper.py: UEDocsScraper.scrape_topic (the breadth-first       *)
(* crawl loop), scrape_page, _fetch_page (cache, retry, backoff, rate      *)
(* limiting) and the first-occurrence deduplication of _extract_links.     *)
(*                                                                         *)
(* A URL is a short string.  The text of a page is a record                *)
(* [text, hrefs, cr]: text says whether the response text is empty, hrefs  *)
(* is the sequence of documentation anchors in the text, in document order *)
(* and possibly repeated, cr says whether the text holds a carriage return *)
(* (a "\r\n" or "\r" line ending).  Time is counted in whole seconds of    *)
(* time.sleep.                                                             *)
(* The crawl is modelled over four abstract URLs; one call of              *)
(* _extract_links is modelled a second time with its URLs and hrefs        *)
(* written out as strings, a string being a sequence of tokens: "O" is     *)
(* "https://dev.epicgames.com", "X" is the origin of another host, "M" is  *)
(* "/documentation/en-us/unreal-engine", "/", "#" and "?" are themselves   *)
(* and every other token is a text without any of these.                   *)
(* A cache file is named by the MD5 of its URL (_get_cache_path); the      *)
(* model keys the cache by the URL, taking distinct URLs to have distinct  *)
(* digests.                                                                *)
(***************************************************************************)
EXTENDS Integers, Sequences, FiniteSets, TLC

VARIABLES
    site,           \* what the server serves: URL -> sequence of anchors
    site_cr,        \* the server's pages have "\r\n" line endings
    depth,          \* scrape_topic's depth argument
    use_cache,      \* self.use_cache
    cache,          \* the files of .cache: URL -> text, NoFile when absent
    to_visit,       \* scrape_topic: to_visit, a list of <<url, depth>>
    visited,        \* scrape_topic: visited
    scraped,        \* scrape_topic: scraped, the list of page dicts
    current_url,    \* scrape_topic: current_url
    current_depth,  \* scrape_topic: current_depth
    attempt,        \* _fetch_page: attempt
    response,       \* _fetch_page: response.text
    err,            \* _fetch_page: the RequestException caught, "none" if none
    html,           \* scrape_page: html, the value _fetch_page returned
    pc,             \* the statement the session is at
    session,        \* number of the scrape_topic call (the cache outlives a call)
    \* history variables: they record what the code did and steer nothing
    fetches,        \* URL -> number of _fetch_page calls in this session
    net_requests,   \* session.get calls in the current _fetch_page call
    delays,         \* time.sleep(REQUEST_DELAY) calls in the current _fetch_page call
    backoffs,       \* seconds of backoff sleep in the current _fetch_page call
    since_request,  \* seconds slept since the last session.get, -1 before the first
    from_cache,     \* the current _fetch_page call returned the cache file
    errors,         \* the exceptions raised in the current _fetch_page call, in order
    scraped_depth,  \* the depths of the entries the pages of scraped came from
    failed,         \* URLs whose scrape_page returned None in this session
    fetch_none,     \* URLs whose _fetch_page returned None in this session
    \* one call of _extract_links, with its URLs written out as strings
    base_url,       \* _extract_links: base_url, the url scrape_page was called with
    anchor_hrefs,   \* the href values of soup.find_all("a", href=True), in document order
    ai,             \* number of anchors the for loop has taken
    link_list,      \* _extract_links: links
    lpc,            \* "idle", "for" inside the loop, "done" when scrape_page has returned
    \* applications of the URL normalization to a string
    norm_in,        \* the string given
    norm_out,       \* the string after norm_n applications
    norm_n,         \* number of applications made
    \* a stop signal of the caller; scrape_topic has no such input and no
    \* statement of the program reads or writes it
    stop_at,        \* number of URLs visited when stop was signalled, -1 before
    \* history of a crawl that is run a second time with the same arguments
    replay_of,      \* the pages the crawl before returned, when this crawl repeats it
    \* one call of _html_to_markdown, with its texts written out as strings
    content,        \* the children of the content element, in document order
    ci,             \* number of children _process_element has been called for
    markdown_lines, \* _html_to_markdown: markdown_lines
    markdown,       \* _html_to_markdown: markdown
    cpc,            \* "idle", "process", "done", or "raised" after an exception
    \* one call of LogFilter.filter_logs
    log_lines,      \* the lines of the session's event files, in reading order
    line_no,        \* number of lines read
    filter_args,    \* channels, verbosity, event_names, after, before, actor
    matching_entries,   \* filter_logs: matching_entries
    fpc             \* "idle", "read" or "done"

vars == <<site, site_cr, depth, use_cache, cache, to_visit, visited, scraped, current_url,
          current_depth, attempt, response, err, html, pc, session, fetches,
          net_requests, delays, backoffs, since_request, from_cache, errors,
          scraped_depth, failed, fetch_none, base_url, anchor_hrefs, ai, link_list, lpc,
          norm_in, norm_out, norm_n, stop_at, replay_of, content, ci,
          markdown_lines, markdown, cpc, log_lines, line_no, filter_args, matching_entries, fpc>>

(***************************************************************************)
(* Bounds of the model.                                                    *)
(***************************************************************************)
MaxDepthArg == 2
MaxSessions == 2
MaxAnchors == 3
MaxUrlLen == 4

(***************************************************************************)
(* Program constants.                                                      *)
(***************************************************************************)
REQUEST_DELAY == 1
MAX_RETRIES == 3

Urls == {"A", "B", "C", "D"}
StartUrl == "A"

None == [text |-> "None", hrefs |-> <<>>, cr |-> FALSE]
NoFile == [text |-> "NoFile", hrefs |-> <<>>, cr |-> FALSE]
EmptyText == [text |-> "", hrefs |-> <<>>, cr |-> FALSE]
Html(anchors) == [text |-> "html", hrefs |-> anchors, cr |-> FALSE]
\* a page whose lines end in "\r\n"
HtmlCR(anchors) == [text |-> "html", hrefs |-> anchors, cr |-> TRUE]

\* Python truthiness of an Optional[str]: None and "" are falsy.
Truthy(h) == h.text = "html"

(***************************************************************************)
(* The link structures served.  Each maps every URL to the anchors of its  *)
(* page.                                                                   *)
(***************************************************************************)
\* A links to B and C, B links to D
ScenarioSite == [A |-> <<"B", "C">>, B |-> <<"D">>, C |-> <<>>, D |-> <<>>]

Sites ==
    { ScenarioSite,
      [A |-> <<>>,              B |-> <<"A">>,           C |-> <<"A">>,      D |-> <<"A">>],
      [A |-> <<"B", "C">>,      B |-> <<"D", "C">>,      C |-> <<"D">>,      D |-> <<"A", "B", "C", "D">>],
      [A |-> <<"B", "C", "B">>, B |-> <<"A", "C", "D">>, C |-> <<"D", "B">>, D |-> <<"A">>],
      [A |-> <<"A", "B">>,      B |-> <<"C">>,           C |-> <<"D">>,      D |-> <<"D", "A">>],
      [A |-> <<"C", "B">>,      B |-> <<"B", "B">>,      C |-> <<"D", "A">>, D |-> <<"B">>] }

DepthArgs == (-1)..MaxDepthArg

RECURSIVE Dedup(_, _)
Dedup(hrefs, links) ==
    IF hrefs = <<>> THEN links
    ELSE Dedup(Tail(hrefs),
               IF \E i \in 1..Len(links) : links[i] = Head(hrefs)
               THEN links ELSE Append(links, Head(hrefs)))

\* _extract_links: the anchors of the text in order of first occurrence.
extract_links(h) == Dedup(h.hrefs, <<>>)

(***************************************************************************)
(* Helpers of scrape_topic.                                                *)
(***************************************************************************)
\* to_visit.pop(): the last entry is taken
PopBack(q) == <<q[Len(q)], SubSeq(q, 1, Len(q) - 1)>>

\* to_visit[0]: the first entry is read and stays in the list
PopPeek(q) == <<Head(q), q>>

\* to_visit.pop(0): the entry taken and the list left.
PopFront(q) == <<Head(q), Tail(q)>>

\* the test of visited is left out
InVisitedNever(u) == FALSE

\* if current_url in visited
InVisited(u) == u \in visited

\* the URL is never added to visited
MarkVisitedDropped(v, u) == v

\* visited.add(current_url)
MarkVisited(v, u) == v \cup {u}

\* the children are enqueued at the depth of their parent
RECURSIVE AppendLinksSameDepth(_, _, _, _)
AppendLinksSameDepth(q, links, v, d) ==
    IF links = <<>> THEN q
    ELSE AppendLinksSameDepth(IF Head(links) \notin v THEN Append(q, <<Head(links), d>>) ELSE q,
                              Tail(links), v, d)

\* for link in result["links"]: if link not in visited: to_visit.append(...)
RECURSIVE AppendLinks(_, _, _, _)
AppendLinks(q, links, v, d) ==
    IF links = <<>> THEN q
    ELSE AppendLinks(IF Head(links) \notin v THEN Append(q, <<Head(links), d + 1>>) ELSE q,
                     Tail(links), v, d)

\* the children of a page at the maximum depth are enqueued too
ExpandOffByOne(q, links, v, d) == IF d <= depth THEN AppendLinks(q, links, v, d) ELSE q

\* if current_depth < depth: the children of a page are enqueued
Expand(q, links, v, d) == IF d < depth THEN AppendLinks(q, links, v, d) ELSE q

\* time.sleep(2 * attempt)
BackoffLinear(a) == 2 * a

\* time.sleep(2 ** attempt)
Backoff(a) == 2 ^ a

\* the state of a scrape_topic call at its first test of the while loop
StartCrawl ==
    /\ to_visit = <<<<StartUrl, 0>>>>
    /\ visited = {}
    /\ scraped = <<>>
    /\ current_url = StartUrl
    /\ current_depth = 0
    /\ attempt = 0
    /\ response = None
    /\ err = "none"
    /\ html = None
    /\ pc = "loop"
    /\ fetches = [u \in Urls |-> 0]
    /\ net_requests = 0
    /\ delays = 0
    /\ backoffs = 0
    /\ since_request = -1
    /\ from_cache = FALSE
    /\ errors = <<>>
    /\ scraped_depth = <<>>
    /\ failed = {}
    /\ fetch_none = {}

\* no call of _extract_links is followed string by string
LinkIdle ==
    /\ base_url = <<>>
    /\ anchor_hrefs = <<>>
    /\ ai = 0
    /\ link_list = <<>>
    /\ lpc = "idle"

\* no normalization is followed
NormIdle ==
    /\ norm_in = <<>>
    /\ norm_out = <<>>
    /\ norm_n = 0

\* the crawl does not repeat another
NoReplay == [on |-> FALSE, scraped |-> <<>>]

\* no call of _html_to_markdown is followed string by string
ConvIdle ==
    /\ content = <<>>
    /\ ci = 0
    /\ markdown_lines = <<>>
    /\ markdown = <<>>
    /\ cpc = "idle"

\* no call of filter_logs is in progress
NoFilter == [channels |-> {}, verbosity |-> "", event_names |-> {}, after |-> 0, before |-> 0,
             actor |-> <<>>]

FilterIdle ==
    /\ log_lines = <<>>
    /\ line_no = 0
    /\ filter_args = NoFilter
    /\ matching_entries = <<>>
    /\ fpc = "idle"

Init ==
    /\ LinkIdle
    /\ NormIdle
    /\ ConvIdle
    /\ FilterIdle
    /\ stop_at = -1
    /\ replay_of = NoReplay
    /\ site \in Sites
    /\ site_cr \in BOOLEAN
    /\ depth \in DepthArgs
    /\ use_cache \in BOOLEAN
    /\ cache = [u \in Urls |-> NoFile]
    /\ session = 1
    /\ StartCrawl

fetch_vars == <<attempt, response, err, html, net_requests, delays, backoffs,
                since_request, from_cache, errors>>
crawl_vars == <<to_visit, visited, scraped, current_url, current_depth,
                scraped_depth, failed, fetch_none, fetches>>
link_vars == <<base_url, anchor_hrefs, ai, link_list, lpc>>
norm_vars == <<norm_in, norm_out, norm_n>>
conv_vars == <<content, ci, markdown_lines, markdown, cpc>>
filter_vars == <<log_lines, line_no, filter_args, matching_entries, fpc>>
run_vars == <<site, site_cr, depth, use_cache, session, link_vars, norm_vars, stop_at,
              replay_of, conv_vars, filter_vars>>

\* the caller has signalled stop
Stopped == stop_at >= 0

(***************************************************************************)
(* scrape_topic: one turn of the while loop up to the call of scrape_page. *)
(***************************************************************************)
\* if current_url in visited: continue
PopVisited ==
    /\ pc = "loop"
    /\ to_visit # <<>>
    /\ InVisited(PopFront(to_visit)[1][1])
    /\ to_visit' = PopFront(to_visit)[2]
    /\ current_url' = PopFront(to_visit)[1][1]
    /\ current_depth' = PopFront(to_visit)[1][2]
    /\ UNCHANGED <<visited, scraped, scraped_depth, failed, fetch_none, fetches, pc, cache>>
    /\ UNCHANGED fetch_vars
    /\ UNCHANGED run_vars

\* if current_depth > depth: continue
PopTooDeep ==
    /\ pc = "loop"
    /\ to_visit # <<>>
    /\ ~InVisited(PopFront(to_visit)[1][1])
    /\ PopFront(to_visit)[1][2] > depth
    /\ to_visit' = PopFront(to_visit)[2]
    /\ current_url' = PopFront(to_visit)[1][1]
    /\ current_depth' = PopFront(to_visit)[1][2]
    /\ UNCHANGED <<visited, scraped, scraped_depth, failed, fetch_none, fetches, pc, cache>>
    /\ UNCHANGED fetch_vars
    /\ UNCHANGED run_vars

\* visited.add(current_url); result = self.scrape_page(current_url), which
\* calls self._fetch_page(url)
PopVisit ==
    /\ pc = "loop"
    /\ to_visit # <<>>
    /\ ~InVisited(PopFront(to_visit)[1][1])
    /\ PopFront(to_visit)[1][2] <= depth
    /\ to_visit' = PopFront(to_visit)[2]
    /\ current_url' = PopFront(to_visit)[1][1]
    /\ current_depth' = PopFront(to_visit)[1][2]
    /\ visited' = MarkVisited(visited, current_url')
    /\ fetches' = [fetches EXCEPT ![current_url'] = @ + 1]
    /\ net_requests' = 0
    /\ delays' = 0
    /\ backoffs' = 0
    /\ from_cache' = FALSE
    /\ errors' = <<>>
    /\ pc' = "fetch"
    /\ UNCHANGED <<scraped, scraped_depth, failed, fetch_none, cache>>
    /\ UNCHANGED <<attempt, response, err, html, since_request>>
    /\ UNCHANGED run_vars

\* the loop also ends when stop has been signalled
LoopExitOnStop ==
    /\ pc = "loop"
    /\ to_visit = <<>> \/ Stopped
    /\ pc' = "done"
    /\ UNCHANGED <<cache>>
    /\ UNCHANGED crawl_vars
    /\ UNCHANGED fetch_vars
    /\ UNCHANGED run_vars

\* while to_visit: ... return scraped
LoopExit ==
    /\ pc = "loop"
    /\ to_visit = <<>>
    /\ pc' = "done"
    /\ UNCHANGED <<cache>>
    /\ UNCHANGED crawl_vars
    /\ UNCHANGED fetch_vars
    /\ UNCHANGED run_vars

(***************************************************************************)
(* _fetch_page                                                             *)
(***************************************************************************)
\* the cache file is never found
CacheHasNever(u) == FALSE

\* cache_path.exists()
CacheHas(u) == cache[u] # NoFile

\* cache_path.write_text(response.text, encoding="utf-8"): the file holds the
\* text, its line endings as they are (os.linesep is "\n")
CachePut(c, u, text) == [c EXCEPT ![u] = text]

\* cache_path.read_text(encoding="utf-8"): the file is opened in text mode
\* with universal newlines, which turns every "\r\n" and "\r" into "\n"
read_text(file) == [file EXCEPT !.cr = FALSE]

\* the texts a successful GET of u may carry: the page, with the server's
\* line endings, or an empty text
Responses(u) == {IF site_cr THEN HtmlCR(site[u]) ELSE Html(site[u]), EmptyText}

\* the exceptions session.get and raise_for_status raise, all of them
\* subclasses of requests.RequestException: a timeout, a connection error
\* or a 5xx status, and a 4xx status
Exceptions == {"transient", "permanent"}

\* only timeouts and server errors are caught
CaughtTransientOnly(e) == e = "transient"

\* except requests.RequestException as e
Caught(e) == e \in Exceptions

\* the rate limiting sleep is taken on a cache hit too
FetchCacheHitSleeps ==
    /\ pc = "fetch"
    /\ use_cache /\ CacheHas(current_url)
    /\ html' = read_text(cache[current_url])
    /\ from_cache' = TRUE
    /\ delays' = delays + 1
    /\ pc' = "scrape"
    /\ UNCHANGED <<attempt, response, err, net_requests, backoffs, since_request, errors>>
    /\ UNCHANGED <<cache>>
    /\ UNCHANGED crawl_vars
    /\ UNCHANGED run_vars

\* if self.use_cache and cache_path.exists(): return cache_path.read_text()
FetchCacheHit ==
    /\ pc = "fetch"
    /\ use_cache /\ CacheHas(current_url)
    /\ html' = read_text(cache[current_url])
    /\ from_cache' = TRUE
    /\ pc' = "scrape"
    /\ UNCHANGED <<attempt, response, err, net_requests, delays, backoffs, since_request,
                   errors>>
    /\ UNCHANGED <<cache>>
    /\ UNCHANGED crawl_vars
    /\ UNCHANGED run_vars

\* otherwise: for attempt in range(MAX_RETRIES), starting at attempt 0
FetchCacheMiss ==
    /\ pc = "fetch"
    /\ ~(use_cache /\ CacheHas(current_url))
    /\ attempt' = 0
    /\ pc' = "request"
    /\ UNCHANGED <<response, err, html, net_requests, delays, backoffs, since_request,
                   from_cache, errors>>
    /\ UNCHANGED <<cache>>
    /\ UNCHANGED crawl_vars
    /\ UNCHANGED run_vars

\* response = self.session.get(url, timeout=30); response.raise_for_status()
\* ends without an exception
RequestOk ==
    /\ pc = "request"
    /\ \E text \in Responses(current_url) : response' = text
    /\ net_requests' = net_requests + 1
    /\ since_request' = 0
    /\ pc' = "cache_write"
    /\ UNCHANGED <<attempt, err, html, delays, backoffs, from_cache, errors>>
    /\ UNCHANGED <<cache>>
    /\ UNCHANGED crawl_vars
    /\ UNCHANGED run_vars

\* ... or raises a RequestException
RequestFail ==
    /\ pc = "request"
    /\ \E e \in Exceptions : err' = e
    /\ errors' = Append(errors, err')
    /\ net_requests' = net_requests + 1
    /\ since_request' = 0
    /\ pc' = IF Caught(err') THEN "except" ELSE "raised"
    /\ UNCHANGED <<attempt, response, html, delays, backoffs, from_cache>>
    /\ UNCHANGED <<cache>>
    /\ UNCHANGED crawl_vars
    /\ UNCHANGED run_vars

\* the response is written to the cache whether or not caching is on
CacheWriteAlways ==
    /\ pc = "cache_write"
    /\ cache' = CachePut(cache, current_url, response)
    /\ pc' = "sleep"
    /\ UNCHANGED fetch_vars
    /\ UNCHANGED crawl_vars
    /\ UNCHANGED run_vars

\* if self.use_cache: cache_path.write_text(response.text)
CacheWrite ==
    /\ pc = "cache_write"
    /\ cache' = IF use_cache THEN CachePut(cache, current_url, response) ELSE cache
    /\ pc' = "sleep"
    /\ UNCHANGED fetch_vars
    /\ UNCHANGED crawl_vars
    /\ UNCHANGED run_vars

\* time.sleep(REQUEST_DELAY)  # Rate limiting
Sleep ==
    /\ pc = "sleep"
    /\ since_request' = since_request + REQUEST_DELAY
    /\ delays' = delays + 1
    /\ pc' = "return"
    /\ UNCHANGED <<attempt, response, err, html, net_requests, backoffs, from_cache, errors>>
    /\ UNCHANGED <<cache>>
    /\ UNCHANGED crawl_vars
    /\ UNCHANGED run_vars

\* return response.text
Return ==
    /\ pc = "return"
    /\ html' = response
    /\ response' = None
    /\ attempt' = 0
    /\ pc' = "scrape"
    /\ UNCHANGED <<err, net_requests, delays, backoffs, since_request, from_cache, errors>>
    /\ UNCHANGED <<cache>>
    /\ UNCHANGED crawl_vars
    /\ UNCHANGED run_vars

\* the for loop takes one turn too many
MoreAttemptsOffByOne(a) == a + 1 <= MAX_RETRIES

\* for attempt in range(MAX_RETRIES): a turn follows the turn of attempt a
MoreAttempts(a) == a + 1 < MAX_RETRIES

\* the seconds slept after the exception of attempt a:
\* if attempt < MAX_RETRIES - 1: time.sleep(2 ** attempt)
BackoffAfter(a) == IF a < MAX_RETRIES - 1 THEN Backoff(a) ELSE 0

\* except requests.RequestException, and the for loop goes on
ExceptRetry ==
    /\ pc = "except"
    /\ MoreAttempts(attempt)
    /\ since_request' = since_request + BackoffAfter(attempt)
    /\ backoffs' = backoffs + BackoffAfter(attempt)
    /\ attempt' = attempt + 1
    /\ err' = "none"
    /\ pc' = "request"
    /\ UNCHANGED <<response, html, net_requests, delays, from_cache, errors>>
    /\ UNCHANGED <<cache>>
    /\ UNCHANGED crawl_vars
    /\ UNCHANGED run_vars

\* except requests.RequestException in the last turn of the for loop:
\* return None
ExceptGiveUp ==
    /\ pc = "except"
    /\ ~MoreAttempts(attempt)
    /\ since_request' = since_request + BackoffAfter(attempt)
    /\ backoffs' = backoffs + BackoffAfter(attempt)
    /\ html' = None
    /\ err' = "none"
    /\ attempt' = 0
    /\ pc' = "scrape"
    /\ UNCHANGED <<response, net_requests, delays, from_cache, errors>>
    /\ UNCHANGED <<cache>>
    /\ UNCHANGED crawl_vars
    /\ UNCHANGED run_vars

(***************************************************************************)
(* scrape_page after the fetch, and the rest of the turn of the loop.      *)
(***************************************************************************)
\* _html_to_markdown: of the markdown the model keeps whether it holds a
\* carriage return; the parser hands the text of an element on as it is, so
\* the "\r" of a line break inside a code block or a paragraph stays
html_to_markdown(h) == IF h.cr THEN "markdown with CR" ELSE "markdown"

\* the dict scrape_page returns; title and scraped_at are left out
Page(u, h) == [url |-> u, markdown |-> html_to_markdown(h), links |-> extract_links(h)]

\* scrape_page returns: its local html is gone, and the record of its
\* _fetch_page call is closed
CallEnds ==
    /\ html' = None
    /\ net_requests' = 0
    /\ delays' = 0
    /\ backoffs' = 0
    /\ from_cache' = FALSE
    /\ errors' = <<>>
    /\ UNCHANGED <<attempt, response, err, since_request>>

\* if not html: return None, and scrape_topic's "if result:" is skipped
ScrapeNone ==
    /\ pc = "scrape"
    /\ ~Truthy(html)
    /\ failed' = failed \cup {current_url}
    /\ fetch_none' = IF html = None THEN fetch_none \cup {current_url} ELSE fetch_none
    /\ pc' = "loop"
    /\ CallEnds
    /\ UNCHANGED <<to_visit, visited, scraped, current_url, current_depth,
                   scraped_depth, fetches>>
    /\ UNCHANGED <<cache>>
    /\ UNCHANGED run_vars

\* scraped.append(result) and the children are enqueued
ScrapeOk ==
    /\ pc = "scrape"
    /\ Truthy(html)
    /\ scraped' = Append(scraped, Page(current_url, html))
    /\ scraped_depth' = Append(scraped_depth, current_depth)
    /\ to_visit' = Expand(to_visit, Page(current_url, html).links, visited, current_depth)
    /\ pc' = "loop"
    /\ CallEnds
    /\ UNCHANGED <<visited, current_url, current_depth, failed, fetch_none, fetches>>
    /\ UNCHANGED <<cache>>
    /\ UNCHANGED run_vars

\* the scraper is run again: a new scrape_topic call over the same .cache
NewSession ==
    /\ pc = "done"
    /\ session < MaxSessions
    /\ session' = session + 1
    /\ depth' \in DepthArgs
    /\ use_cache' \in BOOLEAN
    /\ to_visit' = <<<<StartUrl, 0>>>>
    /\ visited' = {}
    /\ scraped' = <<>>
    /\ current_url' = StartUrl
    /\ current_depth' = 0
    /\ attempt' = 0
    /\ response' = None
    /\ err' = "none"
    /\ html' = None
    /\ pc' = "loop"
    /\ fetches' = [u \in Urls |-> 0]
    /\ net_requests' = 0
    /\ delays' = 0
    /\ backoffs' = 0
    /\ since_request' = -1
    /\ from_cache' = FALSE
    /\ errors' = <<>>
    /\ scraped_depth' = <<>>
    /\ failed' = {}
    /\ fetch_none' = {}
    /\ stop_at' = -1
    /\ UNCHANGED <<site, site_cr, cache, link_vars, norm_vars, replay_of, conv_vars, filter_vars>>

\* the scraper is run again with the same topic and depth and with the
\* cache on, after a crawl with the cache on in which every fetch returned
\* a text
Replay ==
    /\ pc = "done"
    /\ session < MaxSessions
    /\ use_cache
    /\ fetch_none = {}
    /\ replay_of' = [on |-> TRUE, scraped |-> scraped]
    /\ session' = session + 1
    /\ to_visit' = <<<<StartUrl, 0>>>>
    /\ visited' = {}
    /\ scraped' = <<>>
    /\ current_url' = StartUrl
    /\ current_depth' = 0
    /\ attempt' = 0
    /\ response' = None
    /\ err' = "none"
    /\ html' = None
    /\ pc' = "loop"
    /\ fetches' = [u \in Urls |-> 0]
    /\ net_requests' = 0
    /\ delays' = 0
    /\ backoffs' = 0
    /\ since_request' = -1
    /\ from_cache' = FALSE
    /\ errors' = <<>>
    /\ scraped_depth' = <<>>
    /\ failed' = {}
    /\ fetch_none' = {}
    /\ stop_at' = -1
    /\ UNCHANGED <<site, site_cr, depth, use_cache, cache, link_vars, norm_vars, conv_vars,
                   filter_vars>>

Next ==
    \/ PopVisited
    \/ PopTooDeep
    \/ PopVisit
    \/ LoopExit
    \/ FetchCacheHit
    \/ FetchCacheMiss
    \/ RequestOk
    \/ RequestFail
    \/ CacheWrite
    \/ Sleep
    \/ Return
    \/ ExceptRetry
    \/ ExceptGiveUp
    \/ ScrapeNone
    \/ ScrapeOk
    \/ NewSession

Spec == Init /\ [][Next]_vars

\* The scraper is one sequential thread: a statement that can run does run.
\* session.get has timeout=30 and time.sleep returns, so no step blocks.
FairSpec == Spec /\ WF_vars(Next)

(***************************************************************************)
(* The result of scrape_topic: "return scraped".  The function returns the *)
(* list of pages and nothing else: it keeps no list of skipped URLs.       *)
(***************************************************************************)
pages == scraped
skipped == <<>>

PageUrls == {scraped[i].url : i \in 1..Len(scraped)}

(***************************************************************************)
(* C1: in a crawl session every URL is fetched at most once, however many  *)
(* pages link to it and however many frontier entries were enqueued for    *)
(* it, and no two pages of the result share a url.                         *)
(***************************************************************************)
C1_FetchedAtMostOnce ==
    /\ \A u \in Urls : fetches[u] <= 1
    /\ \A i, j \in 1..Len(scraped) : scraped[i].url = scraped[j].url => i = j

\* a finished crawl in which two pages link to a URL that was fetched
C1_Witness ==
    /\ pc = "done"
    /\ \E u \in Urls :
          /\ fetches[u] = 1
          /\ \E i, j \in 1..Len(scraped) :
                /\ i # j
                /\ \E k \in 1..Len(scraped[i].links) : scraped[i].links[k] = u
                /\ \E k \in 1..Len(scraped[j].links) : scraped[j].links[k] = u

IsPrefix(a, b) == Len(a) <= Len(b) /\ SubSeq(b, 1, Len(a)) = a

NonDecreasing(ds) == \A i \in 1..(Len(ds) - 1) : ds[i] <= ds[i + 1]

\* a fetch has failed: an attempt raised, or scrape_page is about to return None
FetchFailing == err # "none" \/ (pc = "scrape" /\ ~Truthy(html))

C4_DepthBounded ==
    depth >= 0 =>
        /\ \A i \in 1..Len(to_visit) : to_visit[i][2] \in 0..depth
        /\ \A i \in 1..Len(scraped_depth) : scraped_depth[i] \in 0..depth

\* a page built at the maximum depth while an entry of that depth waits
C4_Witness ==
    /\ depth >= 1
    /\ \E i \in 1..Len(to_visit) : to_visit[i][2] = depth
    /\ \E i \in 1..Len(scraped_depth) : scraped_depth[i] = depth

(***************************************************************************)
(* C5: with A linking to B and C, B linking to D, and depth 1, no frontier *)
(* entry is ever made for D and D is never fetched; when every fetch       *)
(* succeeds the crawl fetches exactly A, B and C and returns exactly 3     *)
(* pages.                                                                  *)
(***************************************************************************)
C5_Scenario ==
    (site = ScenarioSite /\ depth = 1) =>
        /\ \A i \in 1..Len(to_visit) : to_visit[i][1] # "D"
        /\ fetches["D"] = 0
        /\ (pc = "done" /\ failed = {}) =>
              /\ Len(scraped) = 3
              /\ PageUrls = {"A", "B", "C"}
              /\ \A u \in {"A", "B", "C"} : fetches[u] = 1

\* the scenario's crawl finished with every fetch successful
C5_Witness ==
    /\ site = ScenarioSite
    /\ depth = 1
    /\ pc = "done"
    /\ failed = {}
    /\ Len(scraped) = 3

(***************************************************************************)
(* C6: the crawl is strictly breadth-first: the entry popped is the first  *)
(* of the frontier and new entries go to its end, the depths in the        *)
(* frontier never decrease and none is below the depth being processed,    *)
(* and the depths of the pages of the result never decrease.               *)
(***************************************************************************)
C6_BreadthFirst ==
    /\ [](/\ NonDecreasing([i \in 1..Len(to_visit) |-> to_visit[i][2]])
          /\ \A i \in 1..Len(to_visit) : current_depth <= to_visit[i][2]
          /\ NonDecreasing(scraped_depth))
    /\ [][(pc = "loop" /\ to_visit # <<>>)
            => /\ <<current_url', current_depth'>> = to_visit[1]
               /\ to_visit' = Tail(to_visit)]_vars
    /\ [][pc = "scrape" => IsPrefix(to_visit, to_visit')]_vars

\* a finished crawl with pages of depth 0, 1 and 2
C6_Witness ==
    /\ pc = "done"
    /\ {scraped_depth[i] : i \in 1..Len(scraped_depth)} = {0, 1, 2}
    /\ Len(scraped) = 4

C9_DelayOncePerNetworkFetch ==
    /\ (pc \in {"fetch", "request", "except", "cache_write", "sleep"}) => delays = 0
    /\ pc = "return" => delays = 1
    /\ (pc = "scrape" /\ from_cache) => delays = 0
    /\ (pc = "scrape" /\ ~from_cache /\ html # None) => (delays = 1 /\ net_requests >= 1)
    /\ (pc = "scrape" /\ ~from_cache /\ html = None) => delays = 0

\* a cache hit, in a session that has slept for the network before
C9_Witness == pc = "scrape" /\ from_cache /\ since_request >= REQUEST_DELAY

(***************************************************************************)
(* C10: whenever a network request is about to be issued, at least         *)
(* REQUEST_DELAY seconds have been slept since the request before it.      *)
(***************************************************************************)
C10_MinInterval ==
    pc = "request" => (since_request = -1 \/ since_request >= REQUEST_DELAY)

(***************************************************************************)
(* C11: a fetch makes at most MAX_RETRIES network attempts, and a fetch    *)
(* whose every attempt fails makes exactly MAX_RETRIES and then fails.     *)
(***************************************************************************)
C11_RetryBound ==
    /\ net_requests <= MAX_RETRIES
    /\ Len(errors) <= net_requests
    /\ (pc = "scrape" /\ ~from_cache /\ Len(errors) = net_requests)
          => (net_requests = MAX_RETRIES /\ html = None)
    /\ (pc = "scrape" /\ ~from_cache /\ html = None) => net_requests = MAX_RETRIES

\* a fetch that failed after three transient failures
C11_Witness ==
    /\ pc = "scrape"
    /\ errors = <<"transient", "transient", "transient">>
    /\ html = None
    /\ net_requests = MAX_RETRIES

(***************************************************************************)
(* C12 as claimed: a permanent error ends the fetch at once: it is the     *)
(* last attempt of the fetch, the fetch fails, and no backoff follows it.  *)
(***************************************************************************)
C12_PermanentFailsAtOnce ==
    \A i \in 1..Len(errors) :
        errors[i] = "permanent" =>
            /\ i = Len(errors)
            /\ net_requests = i
            /\ backoffs = 2 ^ (i - 1) - 1
            /\ pc \in {"except", "scrape", "loop", "done"}
            /\ pc # "except" => html = None

(***************************************************************************)
(* C12 as amended: a permanent error is handled like every other           *)
(* RequestException: it is caught, and unless it came in the last of the   *)
(* MAX_RETRIES attempts the backoff of 2^attempt seconds is slept and      *)
(* another attempt is made; the fetch fails only after MAX_RETRIES failed  *)
(* attempts.                                                               *)
(***************************************************************************)
C12_PermanentRetried ==
    \A i \in 1..Len(errors) :
        errors[i] = "permanent" =>
            \/ pc = "except" /\ i = Len(errors)
            \/ /\ i < MAX_RETRIES
               /\ backoffs >= 2 ^ i - 1
               /\ net_requests > i \/ pc = "request"
            \/ /\ i = MAX_RETRIES
               /\ net_requests = MAX_RETRIES
               /\ html = None
               /\ pc \in {"scrape", "loop", "done"}

\* a fetch that got the page on the attempt after a permanent error
C12_Witness == pc = "scrape" /\ errors = <<"permanent">> /\ Truthy(html) /\ backoffs = 1

(***************************************************************************)
(* C13: the backoff after the failed attempt a is 2^a seconds when a is    *)
(* not the last attempt, so the waits of a fetch are 1, 2, ... and their   *)
(* sum before attempt a is 2^a - 1; no wait follows the last attempt.      *)
(***************************************************************************)
C13_BackoffDoubles ==
    /\ pc = "request" => backoffs = 2 ^ attempt - 1
    /\ pc = "except" => backoffs = 2 ^ attempt - 1
    /\ (pc = "scrape" /\ ~from_cache /\ html = None)
          => backoffs = 2 ^ (MAX_RETRIES - 1) - 1
    /\ (pc = "request" /\ attempt > 0) => since_request = 2 ^ (attempt - 1)

\* the third attempt is about to be made, after waits of 1 and 2 seconds
C13_Witness == pc = "request" /\ attempt = 2 /\ backoffs = 3 /\ since_request = 2

(***************************************************************************)
(* C14: with caching on, after a successful network fetch of a URL the     *)
(* cache holds the response text under that URL before the fetch returns,  *)
(* and a later fetch of the URL answered by the cache returns exactly the  *)
(* text the cache holds.                                                   *)
(***************************************************************************)
C14_CacheRoundTrip ==
    /\ (use_cache /\ pc \in {"sleep", "return"}) => cache[current_url] = response
    /\ (use_cache /\ pc = "scrape" /\ ~from_cache /\ html # None)
          => cache[current_url] = html
    /\ (pc = "scrape" /\ from_cache) => html = cache[current_url]

(***************************************************************************)
(* URL strings and the operations of _extract_links on them.               *)
(***************************************************************************)
\* BASE_URL = "https://dev.epicgames.com/documentation/en-us/unreal-engine"
BASE_URL == <<"O", "M">>

\* the token t occurs in the string s
HasToken(s, t) == \E i \in 1..Len(s) : s[i] = t

\* s.rsplit(t, 1)[0]: the part of s before its last t
RECURSIVE RSplitFirst(_, _)
RSplitFirst(s, t) ==
    IF s = <<>> THEN <<>>
    ELSE IF HasToken(Tail(s), t) THEN <<Head(s)>> \o RSplitFirst(Tail(s), t)
    ELSE IF Head(s) = t THEN <<>>
    ELSE s

\* s.split(t)[0]: the part of s before its first t, all of s when it has none
RECURSIVE SplitFirst(_, _)
SplitFirst(s, t) ==
    IF s = <<>> \/ Head(s) = t THEN <<>>
    ELSE <<Head(s)>> \o SplitFirst(Tail(s), t)

\* the string is cut at its last "#" and then at its last "?"
normalize_rsplit(u) == RSplitFirst(RSplitFirst(u, "#"), "?")

\* full_url.split("#")[0].split("?")[0]
normalize(u) == SplitFirst(SplitFirst(u, "#"), "?")

\* the href names a scheme and a host
IsAbsolute(href) == href # <<>> /\ href[1] \in {"O", "X"}

\* href.startswith("/")
StartsWithSlash(href) == href # <<>> /\ href[1] \in {"/", "M"}

\* a path up to and including its last "/"
RECURSIVE DirOf(_)
DirOf(path) ==
    IF path = <<>> THEN <<>>
    ELSE IF path[Len(path)] = "/" THEN path
    ELSE DirOf(SubSeq(path, 1, Len(path) - 1))

\* urllib.parse.urljoin(base, href) for a base of the form O M / segment ...
\* with or without a query and a fragment, and an href without "//", "."
\* and ".." : an absolute href is itself, a root-relative href replaces the
\* path of the base, a fragment is put after the base's path and query, a
\* query after the base's path, and a document-relative href replaces the
\* last segment of the base's path
urljoin(base, href) ==
    IF href = <<>> THEN base
    ELSE IF IsAbsolute(href) THEN href
    ELSE IF StartsWithSlash(href) THEN <<base[1]>> \o href
    ELSE IF href[1] = "#" THEN SplitFirst(base, "#") \o href
    ELSE IF href[1] = "?" THEN normalize(base) \o href
    ELSE DirOf(normalize(base)) \o href

\* if "/documentation/en-us/unreal-engine" in href or href.startswith("/")
IsDocsHref(href) == HasToken(href, "M") \/ StartsWithSlash(href)

\* if "dev.epicgames.com/documentation" in full_url
OnDocsHost(u) == \E i \in 1..(Len(u) - 1) : u[i] = "O" /\ u[i + 1] = "M"

\* the href values a page may hold: absolute, root-relative and
\* document-relative references, with and without fragment and query, to
\* the documentation and to other places
Hrefs ==
    { <<"O", "M", "/", "a">>,
      <<"O", "M", "/", "b">>,
      <<"O", "M", "/", "a", "#", "f">>,
      <<"O", "M", "/", "a", "?", "q">>,
      <<"M", "/", "a">>,
      <<"M", "/", "b", "#", "f">>,
      <<"/", "a">>,
      <<"X", "M", "/", "a">>,
      <<"X", "/", "a">>,
      <<"X", "/", "a", "?", "O", "M", "/", "b">>,
      <<"b">>,
      <<"b", "?", "q">>,
      <<"#", "f">>,
      <<"?", "q">> }

AnchorLists == UNION {[1..n -> Hrefs] : n \in 0..MaxAnchors}

\* the URLs scrape_page is called with: BASE_URL + "/" + the topic given,
\* or the --url argument as it was typed
PageUrlArgs ==
    { <<"O", "M", "/", "a">>,
      <<"O", "M", "/", "a", "#", "f">>,
      <<"O", "M", "/", "a", "?", "q">>,
      <<"O", "M", "/", "a", "/", "b">> }

\* the state of the crawl while one _extract_links call or one
\* normalization is followed
CrawlIdle ==
    /\ site = ScenarioSite
    /\ site_cr = FALSE
    /\ depth = 0
    /\ use_cache = FALSE
    /\ cache = [u \in Urls |-> NoFile]
    /\ session = 1
    /\ stop_at = -1
    /\ replay_of = NoReplay
    /\ StartCrawl

crawl_only == <<site, site_cr, depth, use_cache, cache, session, pc, crawl_vars, fetch_vars,
                stop_at, replay_of>>
crawl_all == <<crawl_only, conv_vars, filter_vars>>

\* scrape_page(url) has fetched a page with the anchors anchor_hrefs and
\* calls _extract_links(html, url): links = []
LinkInit ==
    /\ CrawlIdle
    /\ NormIdle
    /\ ConvIdle
    /\ FilterIdle
    /\ base_url \in PageUrlArgs
    /\ anchor_hrefs \in AnchorLists
    /\ ai = 0
    /\ link_list = <<>>
    /\ lpc = "for"

\* the first test fails: the anchor is passed over
AnchorSkipped ==
    /\ lpc = "for"
    /\ ai < Len(anchor_hrefs)
    /\ ~IsDocsHref(anchor_hrefs[ai + 1])
    /\ ai' = ai + 1
    /\ UNCHANGED <<base_url, anchor_hrefs, link_list, lpc>>
    /\ UNCHANGED <<crawl_all, norm_vars>>

\* the second test fails
AnchorOffHost ==
    /\ lpc = "for"
    /\ ai < Len(anchor_hrefs)
    /\ IsDocsHref(anchor_hrefs[ai + 1])
    /\ ~OnDocsHost(urljoin(base_url, anchor_hrefs[ai + 1]))
    /\ ai' = ai + 1
    /\ UNCHANGED <<base_url, anchor_hrefs, link_list, lpc>>
    /\ UNCHANGED <<crawl_all, norm_vars>>

\* full_url = full_url.split("#")[0].split("?")[0]; full_url in links
InLinks(ls, full_url) == \E i \in 1..Len(ls) : ls[i] = normalize(full_url)

\* if full_url not in links: fails
AnchorDuplicate ==
    /\ lpc = "for"
    /\ ai < Len(anchor_hrefs)
    /\ IsDocsHref(anchor_hrefs[ai + 1])
    /\ OnDocsHost(urljoin(base_url, anchor_hrefs[ai + 1]))
    /\ InLinks(link_list, urljoin(base_url, anchor_hrefs[ai + 1]))
    /\ ai' = ai + 1
    /\ UNCHANGED <<base_url, anchor_hrefs, link_list, lpc>>
    /\ UNCHANGED <<crawl_all, norm_vars>>

\* links.append(full_url)
AnchorAppended ==
    /\ lpc = "for"
    /\ ai < Len(anchor_hrefs)
    /\ IsDocsHref(anchor_hrefs[ai + 1])
    /\ OnDocsHost(urljoin(base_url, anchor_hrefs[ai + 1]))
    /\ ~InLinks(link_list, urljoin(base_url, anchor_hrefs[ai + 1]))
    /\ link_list' = Append(link_list, normalize(urljoin(base_url, anchor_hrefs[ai + 1])))
    /\ ai' = ai + 1
    /\ UNCHANGED <<base_url, anchor_hrefs, lpc>>
    /\ UNCHANGED <<crawl_all, norm_vars>>

\* return links, and scrape_page returns its dict
ExtractReturn ==
    /\ lpc = "for"
    /\ ai = Len(anchor_hrefs)
    /\ lpc' = "done"
    /\ UNCHANGED <<base_url, anchor_hrefs, ai, link_list>>
    /\ UNCHANGED <<crawl_all, norm_vars>>

LinkNext ==
    \/ AnchorSkipped
    \/ AnchorOffHost
    \/ AnchorDuplicate
    \/ AnchorAppended
    \/ ExtractReturn

LinkSpec == LinkInit /\ [][LinkNext]_vars

\* the dict scrape_page returns: "url": url, "links": links
ResultPage == [url |-> base_url, links |-> link_list]

\* the strings the normalization is applied to
UrlStrings == UNION {[1..n -> {"a", "#", "?"}] : n \in 0..MaxUrlLen}

NormInit ==
    /\ CrawlIdle
    /\ LinkIdle
    /\ ConvIdle
    /\ FilterIdle
    /\ norm_in \in UrlStrings
    /\ norm_out = norm_in
    /\ norm_n = 0

\* the normalization is applied to the string, and then to its own result
NormalizeUrl ==
    /\ norm_n < 2
    /\ norm_out' = normalize(norm_out)
    /\ norm_n' = norm_n + 1
    /\ UNCHANGED norm_in
    /\ UNCHANGED <<crawl_all, link_vars>>

NormSpec == NormInit /\ [][NormalizeUrl]_vars

NoFragmentNoQuery(u) == ~HasToken(u, "#") /\ ~HasToken(u, "?")

InScope(u) == IsPrefix(BASE_URL, u)

(***************************************************************************)
(* C15: no "#" and no "?" is in the url of a page of the result, the page  *)
(* of the start URL included, nor in any of its links.                     *)
(***************************************************************************)
C15_NoFragmentNoQuery ==
    lpc = "done" =>
        /\ NoFragmentNoQuery(ResultPage.url)
        /\ \A i \in 1..Len(ResultPage.links) : NoFragmentNoQuery(ResultPage.links[i])

(***************************************************************************)
(* C16: the normalization, which cuts a string at its first "#" and then   *)
(* at its first "?", is idempotent: applied to its own result it changes   *)
(* nothing, and its result holds no "#" and no "?".                        *)
(***************************************************************************)
C16_NormalizeIdempotent ==
    /\ norm_n = 2 => norm_out = normalize(norm_in)
    /\ norm_n >= 1 => (normalize(norm_out) = norm_out /\ NoFragmentNoQuery(norm_out))

\* a string with a "?" before a "#" and another "#" after it, normalized twice
C16_Witness ==
    /\ norm_n = 2
    /\ norm_in = <<"a", "?", "#", "#">>
    /\ norm_out = <<"a">>

(***************************************************************************)
(* C17: every URL in the list _extract_links returns starts with BASE_URL. *)
(***************************************************************************)
C17_LinksInScope == \A i \in 1..Len(link_list) : InScope(link_list[i])

(***************************************************************************)
(* C18: when _extract_links has returned, for every anchor of the page     *)
(* whose href resolved against base_url starts with BASE_URL, the          *)
(* normalized resolved URL is in the list returned.                        *)
(***************************************************************************)
C18_EveryAnchorCollected ==
    lpc = "done" =>
        \A k \in 1..Len(anchor_hrefs) :
            InScope(urljoin(base_url, anchor_hrefs[k]))
                => \E i \in 1..Len(link_list) :
                      link_list[i] = normalize(urljoin(base_url, anchor_hrefs[k]))

\* the normalized resolved URL of the k-th anchor of the page
AnchorUrl(k) == normalize(urljoin(base_url, anchor_hrefs[k]))

\* the first anchor of the page whose normalized resolved URL is u
FirstOccurrence(u) ==
    CHOOSE k \in 1..Len(anchor_hrefs) :
        AnchorUrl(k) = u /\ \A j \in 1..(k - 1) : AnchorUrl(j) # u

(***************************************************************************)
(* C19: the list _extract_links returns has no duplicates, and its order   *)
(* is the order in which its URLs first occur among the normalized         *)
(* resolved URLs of the anchors of the page.                               *)
(***************************************************************************)
C19_NoDuplicatesFirstOccurrence ==
    lpc = "done" =>
        /\ \A i, j \in 1..Len(link_list) : link_list[i] = link_list[j] => i = j
        /\ \A i, j \in 1..Len(link_list) :
              i < j => FirstOccurrence(link_list[i]) < FirstOccurrence(link_list[j])

(***************************************************************************)
(* A caller that signals stop while a crawl runs.                          *)
(***************************************************************************)
\* the caller signals stop, once, at any moment of a running crawl
SignalStop ==
    /\ pc # "done"
    /\ ~Stopped
    /\ stop_at' = Cardinality(visited)
    /\ UNCHANGED <<site, site_cr, depth, use_cache, cache, session, pc, crawl_vars,
                   fetch_vars, link_vars, norm_vars, replay_of, conv_vars, filter_vars>>

StopSpec == Init /\ [][Next \/ SignalStop]_vars

(***************************************************************************)
(* C20 as claimed: once stop is signalled no further fetch is started and  *)
(* the frontier is no longer expanded.                                     *)
(***************************************************************************)
C20_StopHalts ==
    [][(Stopped /\ Stopped')
          => (fetches' = fetches /\ Len(to_visit') <= Len(to_visit))]_vars

(***************************************************************************)
(* C20 as amended: the crawl has no stop signal.  Whatever the caller      *)
(* signals, the loop goes on as before: it ends only when the frontier is  *)
(* empty, a non-empty frontier is popped, and a page at less than the      *)
(* maximum depth expands the frontier.                                     *)
(***************************************************************************)
C20_StopIgnored ==
    /\ [](pc = "done" => to_visit = <<>>)
    /\ [][(Stopped /\ Stopped' /\ pc = "loop" /\ to_visit # <<>>)
            => to_visit' = Tail(to_visit)]_vars
    /\ [][(Stopped /\ pc = "scrape" /\ Truthy(html))
            => /\ to_visit' = Expand(to_visit, extract_links(html), visited, current_depth)
               /\ scraped' = Append(scraped, Page(current_url, html))]_vars

\* a finished crawl that started two fetches after stop was signalled and
\* returned their pages
C20_Witness ==
    /\ pc = "done"
    /\ Stopped
    /\ Cardinality(visited) >= stop_at + 2
    /\ Len(scraped) >= stop_at + 2

(***************************************************************************)
(* C25 as claimed: at every point of a crawl no URL of a frontier entry is *)
(* in the visited set.                                                     *)
(***************************************************************************)
C25_FrontierUnvisited == \A i \in 1..Len(to_visit) : to_visit[i][1] \notin visited

(***************************************************************************)
(* C25 as amended: a URL is not in the visited set when an entry for it is *)
(* appended to the frontier, but it may be appended more than once and be  *)
(* visited while an entry for it waits; such an entry is dropped when it   *)
(* is popped, without a fetch and without a change of the visited set.     *)
(***************************************************************************)
C25_StaleEntriesDropped ==
    /\ [][pc = "scrape"
            => \A i \in (Len(to_visit) + 1)..Len(to_visit') : to_visit'[i][1] \notin visited]_vars
    /\ [][(pc = "loop" /\ to_visit # <<>> /\ to_visit[1][1] \in visited)
            => (fetches' = fetches /\ visited' = visited /\ scraped' = scraped
                /\ pc' = "loop")]_vars

\* the entry about to be popped is for a URL visited since it was appended,
\* and another entry waits behind it
C25_Witness ==
    /\ pc = "loop"
    /\ Len(to_visit) >= 2
    /\ to_visit[1][1] \in visited
    /\ to_visit[1][2] = 2

(***************************************************************************)
(* C26: with use_cache false a fetch neither reads nor writes the cache:   *)
(* no fetch is answered by a cache file, every fetch that returns has made *)
(* a network request, also for a URL that has a cache file, and no step    *)
(* changes the cache files.                                                *)
(***************************************************************************)
C26_CacheBypass ==
    /\ [](~use_cache => ~from_cache)
    /\ []((~use_cache /\ pc = "scrape") => net_requests >= 1)
    /\ []((~use_cache /\ pc \in {"request", "except", "cache_write", "sleep", "return"})
            => from_cache = FALSE)
    /\ [][~use_cache => cache' = cache]_vars

\* without caching, a fetch of a URL that has a cache file got its page
\* from the network
C26_Witness ==
    /\ ~use_cache
    /\ pc = "scrape"
    /\ cache[current_url] # NoFile
    /\ net_requests = 1
    /\ Truthy(html)

\* the URLs the page of u links to
LinksOf(u) == {site[u][i] : i \in 1..Len(site[u])}

\* the URLs reachable from the start URL by a chain of at most n links
RECURSIVE Within(_)
Within(n) ==
    IF n < 0 THEN {}
    ELSE IF n = 0 THEN {StartUrl}
    ELSE Within(n - 1) \cup UNION {LinksOf(u) : u \in Within(n - 1)}

\* the shortest link distance of a reachable URL from the start URL
Distance(u) ==
    CHOOSE n \in 0..Cardinality(Urls) : u \in Within(n) /\ u \notin Within(n - 1)

(***************************************************************************)
(* C27: when no fetch of the crawl failed, the urls of the pages returned  *)
(* are exactly the URLs reachable from the start URL by at most depth      *)
(* links, and each was fetched at the depth of its shortest link distance. *)
(***************************************************************************)
C27_Complete ==
    (pc = "done" /\ fetch_none = {}) =>
        /\ PageUrls = Within(depth)
        /\ \A i \in 1..Len(scraped) : scraped_depth[i] = Distance(scraped[i].url)

(***************************************************************************)
(* C28: every fetch that returns a text, from the network or from the      *)
(* cache and also when the text is empty, adds exactly one page for its    *)
(* URL to the result.                                                      *)
(***************************************************************************)
C28_SuccessYieldsPage ==
    [][(pc = "scrape" /\ html # None)
          => /\ Len(scraped') = Len(scraped) + 1
             /\ scraped'[Len(scraped')].url = current_url
             /\ current_url \notin failed']_vars

(***************************************************************************)
(* A crawl with the cache on, run again with the same arguments.           *)
(***************************************************************************)
ReplayNext ==
    \/ PopVisited
    \/ PopTooDeep
    \/ PopVisit
    \/ LoopExit
    \/ FetchCacheHit
    \/ FetchCacheMiss
    \/ RequestOk
    \/ RequestFail
    \/ CacheWrite
    \/ Sleep
    \/ Return
    \/ ExceptRetry
    \/ ExceptGiveUp
    \/ ScrapeNone
    \/ ScrapeOk
    \/ Replay

ReplaySpec == Init /\ [][ReplayNext]_vars

(***************************************************************************)
(* C29: a crawl that repeats, with the same start URL and depth and over   *)
(* its cache, a crawl with the cache on in which no fetch failed makes no  *)
(* network request and no politeness or backoff wait, and returns the same *)
(* sequence of pages: the same urls, documents and links.                  *)
(***************************************************************************)
C29_WarmReplay ==
    replay_of.on =>
        /\ net_requests = 0
        /\ delays = 0
        /\ backoffs = 0
        /\ pc = "done" => scraped = replay_of.scraped

(***************************************************************************)
(* _html_to_markdown on a parsed page.  A text is a sequence of            *)
(* characters, "x" and "y" for letters, " " and "\n"; a markdown line is a *)
(* text in which the marks the converter writes ("|", "##", "---", ...)    *)
(* are single tokens.  An element is a record of its tag, its text         *)
(* (get_text()), its href or src, the language class of its code child,    *)
(* the cells of its rows when it is a table, and its children.             *)
(***************************************************************************)
Whitespace == {" ", "\n"}

\* the backquote that marks inline code, and the three that fence a code block
Backtick == "BQ"
Fence == "BQBQBQ"

RECURSIVE lstrip(_)
lstrip(t) == IF t # <<>> /\ Head(t) \in Whitespace THEN lstrip(Tail(t)) ELSE t

RECURSIVE rstrip(_)
rstrip(t) ==
    IF t # <<>> /\ t[Len(t)] \in Whitespace THEN rstrip(SubSeq(t, 1, Len(t) - 1)) ELSE t

\* str.strip()
strip(t) == rstrip(lstrip(t))

\* "\n".join(markdown_lines)
RECURSIVE join_lines(_)
join_lines(ls) ==
    IF ls = <<>> THEN <<>>
    ELSE IF Len(ls) = 1 THEN ls[1]
    ELSE ls[1] \o <<"\n">> \o join_lines(Tail(ls))

\* text.split("\n")
RECURSIVE split_lines(_)
split_lines(t) ==
    IF ~HasToken(t, "\n") THEN <<t>>
    ELSE <<SplitFirst(t, "\n")>>
            \o split_lines(SubSeq(t, Len(SplitFirst(t, "\n")) + 2, Len(t)))

\* the positions re.sub keeps: of each run of three or more "\n" the first two
KeptAt(t) ==
    SelectSeq([i \in 1..Len(t) |-> i],
              LAMBDA i : ~(i >= 3 /\ t[i] = "\n" /\ t[i - 1] = "\n" /\ t[i - 2] = "\n"))

\* re.sub(r"\n{3,}", "\n\n", markdown)
collapse_newlines(t) == [j \in 1..Len(KeptAt(t)) |-> t[KeptAt(t)[j]]]

Node(tag, text) ==
    [tag |-> tag, text |-> text, href |-> "", lang |-> "", rows |-> <<>>, kids |-> <<>>]

\* what _process_element appended, or that it raised
Lines(ls) == [raised |-> FALSE, lines |-> ls]
Raised == [raised |-> TRUE, lines |-> <<>>]

\* href.startswith(("http://", "https://"))
IsHttp(href) == href = "http"

\* urljoin(base_url, href) raises ValueError("Invalid IPv6 URL") for a
\* reference with an unmatched bracket in its host, such as "//[x"
urljoin_raises(href) == href = "bad"

\* the href written: itself when it starts with http, else urljoin's result
resolved(href) == IF IsHttp(href) THEN href ELSE "joined"

\* the statement "href = urljoin(base_url, href)" is reached and raises
JoinRaises(href) == href # "" /\ ~IsHttp(href) /\ urljoin_raises(href)

\* _get_inline_text: the part a child adds
inline_part(c) ==
    IF c.tag = "#text" THEN c.text
    ELSE IF c.tag \in {"strong", "b"} THEN <<"**">> \o c.text \o <<"**">>
    ELSE IF c.tag \in {"em", "i"} THEN <<"*">> \o c.text \o <<"*">>
    ELSE IF c.tag = "code" THEN <<Backtick>> \o c.text \o <<Backtick>>
    ELSE IF c.tag = "a" /\ c.href # "" THEN <<"[">> \o c.text \o <<"](", resolved(c.href), ")">>
    ELSE c.text

RECURSIVE inline_parts(_)
inline_parts(cs) == IF cs = <<>> THEN <<>> ELSE inline_part(Head(cs)) \o inline_parts(Tail(cs))

\* _get_inline_text(element, base_url)
get_inline_text(e) ==
    IF \E i \in 1..Len(e.kids) : e.kids[i].tag = "a" /\ JoinRaises(e.kids[i].href)
    THEN [raised |-> TRUE, text |-> <<>>]
    ELSE [raised |-> FALSE, text |-> strip(inline_parts(e.kids))]

\* " | ".join(cells)
RECURSIVE join_cells(_)
join_cells(cells) ==
    IF cells = <<>> THEN <<>>
    ELSE IF Len(cells) = 1 THEN cells[1]
    ELSE cells[1] \o <<" ", "|", " ">> \o join_cells(Tail(cells))

\* "| " + " | ".join(cells) + " |"
table_line(cells) == <<"|", " ">> \o join_cells(cells) \o <<" ", "|">>

\* [td.get_text().strip() for td in row.find_all(["td", "th"])]
cell_texts(row) == [i \in 1..Len(row) |-> strip(row[i])]

\* every row is padded or cut to n cells
RECURSIVE body_lines_padded(_, _)
body_lines_padded(rows, n) ==
    IF rows = <<>> THEN <<>>
    ELSE (IF Head(rows) # <<>>
          THEN <<table_line([i \in 1..n |-> IF i <= Len(Head(rows))
                                            THEN strip(Head(rows)[i]) ELSE <<>>])>>
          ELSE <<>>)
            \o body_lines_padded(Tail(rows), n)

\* for row in rows[1:]: if cells: lines.append(...)
RECURSIVE body_lines(_)
body_lines(rows) ==
    IF rows = <<>> THEN <<>>
    ELSE (IF Head(rows) # <<>> THEN <<table_line(cell_texts(Head(rows)))>> ELSE <<>>)
            \o body_lines(Tail(rows))

\* if headers: the header line and the line of "---"
header_lines(row) ==
    IF row # <<>>
    THEN <<table_line(cell_texts(row)), table_line([i \in 1..Len(row) |-> <<"---">>])>>
    ELSE <<>>

\* the body rows are written with as many cells as the header has
process_table_padded(rows) ==
    IF rows = <<>> THEN << <<>> >>
    ELSE << <<>> >> \o header_lines(rows[1])
            \o body_lines_padded(Tail(rows), Len(rows[1])) \o << <<>> >>

\* _process_table, rows being table.find_all("tr")
process_table(rows) ==
    IF rows = <<>> THEN << <<>> >>
    ELSE << <<>> >> \o header_lines(rows[1]) \o body_lines(Tail(rows)) \o << <<>> >>

\* for line in text.split("\n"): if line.strip(): lines.append(f"> {line.strip()}")
RECURSIVE quote_lines(_)
quote_lines(ls) ==
    IF ls = <<>> THEN <<>>
    ELSE (IF strip(Head(ls)) # <<>> THEN << <<">", " ">> \o strip(Head(ls)) >> ELSE <<>>)
            \o quote_lines(Tail(ls))

HeadingMark == [h1 |-> "#", h2 |-> "##", h3 |-> "###", h4 |-> "####", h5 |-> "#####",
                h6 |-> "######"]

\* the lines of the li children of a list, numbered from i
RECURSIVE list_lines(_, _, _)
list_lines(items, i, tag) ==
    IF items = <<>> THEN <<>>
    ELSE << <<IF tag = "ol" THEN ToString(i) \o "." ELSE "-", " ">>
              \o get_inline_text(Head(items)).text >>
            \o list_lines(Tail(items), i + 1, tag)

\* element.find_all("li", recursive=False)
li_children(e) == SelectSeq(e.kids, LAMBDA k : k.tag = "li")

RECURSIVE process_element(_)
RECURSIVE process_children(_)

\* for child in element.children: self._process_element(child, ...)
process_children(kids) ==
    IF kids = <<>> THEN Lines(<<>>)
    ELSE IF process_element(Head(kids)).raised THEN Raised
    ELSE IF process_children(Tail(kids)).raised THEN Raised
    ELSE Lines(process_element(Head(kids)).lines \o process_children(Tail(kids)).lines)

\* _process_element(element, lines, base_url): the lines it appends
process_element(e) ==
    IF e.tag = "#text"
    THEN Lines(IF strip(e.text) # <<>> THEN <<strip(e.text)>> ELSE <<>>)
    ELSE IF e.tag \in DOMAIN HeadingMark
    THEN Lines(IF strip(e.text) # <<>>
               THEN << <<>>, <<HeadingMark[e.tag], " ">> \o strip(e.text), <<>> >>
               ELSE <<>>)
    ELSE IF e.tag = "p"
    THEN IF get_inline_text(e).raised THEN Raised
         ELSE Lines(IF get_inline_text(e).text # <<>>
                    THEN << <<>>, get_inline_text(e).text, <<>> >>
                    ELSE <<>>)
    ELSE IF e.tag = "pre"
    THEN Lines(<< <<>>, <<Fence \o e.lang>>, strip(e.text), <<Fence>>, <<>> >>)
    ELSE IF e.tag = "code"
    THEN Lines(<< <<Backtick>> \o e.text \o <<Backtick>> >>)
    ELSE IF e.tag \in {"ul", "ol"}
    THEN IF \E i \in 1..Len(li_children(e)) : get_inline_text(li_children(e)[i]).raised
         THEN Raised
         ELSE Lines(<< <<>> >> \o list_lines(li_children(e), 1, e.tag) \o << <<>> >>)
    ELSE IF e.tag = "table"
    THEN Lines(process_table(e.rows))
    ELSE IF e.tag = "a"
    THEN IF e.href # "" /\ strip(e.text) # <<>>
         THEN IF JoinRaises(e.href) THEN Raised
              ELSE Lines(<< <<"[">> \o strip(e.text) \o <<"](", resolved(e.href), ")">> >>)
         ELSE Lines(<<>>)
    ELSE IF e.tag = "img"
    THEN IF e.href # ""
         THEN IF JoinRaises(e.href) THEN Raised
              ELSE Lines(<< <<"![">> \o e.text \o <<"](", resolved(e.href), ")">> >>)
         ELSE Lines(<<>>)
    ELSE IF e.tag \in {"blockquote", "div.callout"}
    THEN Lines(IF strip(e.text) # <<>>
               THEN << <<>> >> \o quote_lines(split_lines(strip(e.text))) \o << <<>> >>
               ELSE <<>>)
    ELSE IF e.tag \in {"div", "section", "article", "main", "span", "body"}
    THEN process_children(e.kids)
    ELSE Lines(IF strip(e.text) # <<>> THEN <<strip(e.text)>> ELSE <<>>)

\* the children the content element of a page is drawn from
MaxKids == 2

Text(t) == Node("#text", t)
Pre(t, lang) == [Node("pre", t) EXCEPT !.lang = lang]
Ref(tag, t, href) == [Node(tag, t) EXCEPT !.href = href]
With(tag, kids) == [Node(tag, <<>>) EXCEPT !.kids = kids]
Table(rows) == [Node("table", <<>>) EXCEPT !.rows = rows]

Nodes ==
    { Text(<<"x">>), Text(<<"\n", " ">>),
      Node("h2", <<"x", " ", "y">>), Node("h1", <<" ">>),
      With("p", <<Text(<<"x", " ">>), Node("strong", <<"y">>), Node("em", <<"x">>)>>),
      With("p", <<Node("code", <<"x">>), Ref("a", <<"y">>, "rel"), Node("kbd", <<"x">>)>>),
      With("p", <<Text(<<"x">>), Ref("a", <<"y">>, "bad")>>),
      With("p", <<Text(<<" ">>), Ref("a", <<"y">>, "")>>),
      Pre(<<"x">>, "cpp"),
      Pre(<<" ", "x", "\n", "\n", "\n", "y", "\n">>, ""),
      Pre(<<"x", "\n", "\n", "y">>, ""),
      Node("code", <<"x">>),
      With("ul", <<With("li", <<Text(<<"x">>)>>), With("li", <<Node("b", <<"y">>)>>)>>),
      With("ol", <<Node("kbd", <<"x">>), With("li", <<Text(<<"x">>)>>),
                   With("li", <<Ref("a", <<"y">>, "http")>>)>>),
      With("ul", <<With("li", <<Ref("a", <<"y">>, "bad")>>)>>),
      Table(<< << <<"x">>, <<"y">>, <<"x", "y">>, <<"y", "x">> >>,
               << <<"y">>, <<" ", "x">>, <<>> >>,
               << <<"x">>, <<"x">>, <<"y">>, <<"y">> >> >>),
      Table(<< << <<"x">>, <<"y">> >>, <<>>, << <<"y">>, <<"x">>, <<"x", "y">> >> >>),
      Table(<< <<>>, << <<"x">> >> >>),
      Table(<<>>),
      Ref("a", <<"x">>, "rel"), Ref("a", <<"x">>, "http"), Ref("a", <<"x">>, "bad"),
      Ref("a", <<" ">>, "bad"), Ref("a", <<"x">>, ""),
      Ref("img", <<"x">>, "rel"), Ref("img", <<"x">>, "bad"), Ref("img", <<"x">>, ""),
      Node("blockquote", <<" ", "x", "\n", " ", "\n", "y">>),
      Node("div.callout", <<" ">>),
      With("div", <<Node("kbd", <<"x">>), Text(<<" ">>), Pre(<<"y">>, "")>>),
      With("section", <<Ref("img", <<"x">>, "bad")>>),
      Node("kbd", <<" ", "x", " ">>), Node("kbd", <<" ">>) }

\* the children of the content element: up to MaxKids nodes
Contents == UNION {[1..n -> Nodes] : n \in 0..MaxKids}

\* _html_to_markdown is entered with a parsed page
ConvInit ==
    /\ CrawlIdle
    /\ LinkIdle
    /\ NormIdle
    /\ FilterIdle
    /\ content \in Contents
    /\ ci = 0
    /\ markdown_lines = <<>>
    /\ markdown = <<>>
    /\ cpc = "process"

\* line 263: the next child is processed and its lines are appended
ProcessChild ==
    /\ cpc = "process"
    /\ ci < Len(content)
    /\ ~process_element(content[ci + 1]).raised
    /\ markdown_lines' = markdown_lines \o process_element(content[ci + 1]).lines
    /\ ci' = ci + 1
    /\ UNCHANGED <<content, markdown, cpc, crawl_only, link_vars, norm_vars, filter_vars>>

\* urljoin raises inside the child: nothing catches it on the way out
ProcessChildRaises ==
    /\ cpc = "process"
    /\ ci < Len(content)
    /\ process_element(content[ci + 1]).raised
    /\ cpc' = "raised"
    /\ UNCHANGED <<content, ci, markdown_lines, markdown, crawl_only, link_vars, norm_vars, filter_vars>>

\* lines 154-158: join, collapse the newlines, strip, return
CleanUp ==
    /\ cpc = "process"
    /\ ci = Len(content)
    /\ markdown' = strip(collapse_newlines(join_lines(markdown_lines)))
    /\ cpc' = "done"
    /\ UNCHANGED <<content, ci, markdown_lines, crawl_only, link_vars, norm_vars, filter_vars>>

ConvNext == ProcessChild \/ ProcessChildRaises \/ CleanUp

ConvSpec == ConvInit /\ [][ConvNext]_vars

\* the cells between the bars of a table line
RECURSIVE SplitBars(_)
SplitBars(t) ==
    IF ~HasToken(t, "|") THEN <<t>>
    ELSE <<SplitFirst(t, "|")>> \o SplitBars(SubSeq(t, Len(SplitFirst(t, "|")) + 2, Len(t)))

CellsOf(line) ==
    [i \in 1..(Len(SplitBars(line)) - 2) |-> strip(SplitBars(line)[i + 1])]

\* the rows of a table that have cells
NonEmptyRows(rows) == SelectSeq(rows, LAMBDA r : r # <<>>)

\* a is a run of consecutive tokens of b
IsInfix(a, b) == \E i \in 0..(Len(b) - Len(a)) : SubSeq(b, i + 1, i + Len(a)) = a

\* the lines the last step appended
Appended == SubSeq(markdown_lines', Len(markdown_lines) + 1, Len(markdown_lines'))

\* C22: a table whose first row has cells is written as a blank line, the first
\* row's cells as the header, a separator with one "---" per header cell, then
\* every later row that has cells with exactly its own cells in order, whatever
\* the header's length, and a blank line.
C22_RaggedTable ==
    [][(cpc = "process" /\ ci < Len(content) /\ content[ci + 1].tag = "table"
            /\ content[ci + 1].rows # <<>> /\ content[ci + 1].rows[1] # <<>>)
        => LET rows == content[ci + 1].rows
               body == NonEmptyRows(Tail(rows))
           IN  /\ Len(Appended) = Len(body) + 4
               /\ Appended[1] = <<>>
               /\ Appended[Len(Appended)] = <<>>
               /\ CellsOf(Appended[2]) = [i \in 1..Len(rows[1]) |-> strip(rows[1][i])]
               /\ CellsOf(Appended[3]) = [i \in 1..Len(rows[1]) |-> <<"---">>]
               /\ \A k \in 1..Len(body) :
                    CellsOf(Appended[k + 3]) = [i \in 1..Len(body[k]) |-> strip(body[k][i])]]_vars

C22_Witness ==
    /\ cpc = "done"
    /\ \E k \in 1..Len(content) :
        /\ content[k].tag = "table"
        /\ Len(content[k].rows) = 3
        /\ Len(content[k].rows[1]) = 4
        /\ Len(content[k].rows[2]) = 3
    /\ \E j \in 1..Len(markdown_lines) :
        HasToken(markdown_lines[j], "|") /\ Len(CellsOf(markdown_lines[j])) = 3
    /\ \E j \in 1..Len(markdown_lines) :
        HasToken(markdown_lines[j], "|") /\ Len(CellsOf(markdown_lines[j])) = 4

\* C23: the conversion never raises, and a node of no structural role whose text
\* is not blank has its stripped text among the lines.
C23_NeverFails ==
    /\ cpc # "raised"
    /\ \A k \in 1..ci :
        (content[k].tag = "kbd" /\ strip(content[k].text) # <<>>)
            => \E j \in 1..Len(markdown_lines) : markdown_lines[j] = strip(content[k].text)

\* C30: in the returned markdown every code block holds, between its fences,
\* the text of its pre element with only the whitespace at its ends removed.
C30_CodeBlockVerbatim ==
    cpc = "done" =>
        \A k \in 1..Len(content) :
            content[k].tag = "pre"
                => IsInfix(<<Fence \o content[k].lang, "\n">> \o strip(content[k].text)
                              \o <<"\n", Fence>>, markdown)

(***************************************************************************)
(* LogFilter.filter_logs over the lines of a session's event files.  A     *)
(* line is invalid JSON or an entry; an entry is a dict that may lack any  *)
(* of its keys.  Timestamps are positive numbers in time order, names are  *)
(* sequences of characters.  An argument that is None or empty is written  *)
(* as the empty value of its kind, which the code treats the same way.     *)
(***************************************************************************)
\* the lines of the event files
MaxLines == 2

verbosity_order == [Verbose |-> 0, Display |-> 1, Warning |-> 2, Error |-> 3, Fatal |-> 4]

\* d.get(k, default)
get(d, k, default) == IF k \in DOMAIN d THEN d[k] ELSE default

EmptyDict == [k \in {} |-> ""]

Entry(channel, verbosity, event_name, timestamp, context) ==
    [channel |-> channel, verbosity |-> verbosity, event_name |-> event_name,
     timestamp |-> timestamp, context |-> context]

\* entries as the StructuredLogging plugin writes them (context.actor_name),
\* entries with a context.actor key, and entries with keys missing
Entries ==
    { Entry("AI", "Error", "E1", 1, [actor_name |-> <<"a", "b">>, world_name |-> "W"]),
      Entry("AI", "Display", "E1", 2, [actor_name |-> <<"b">>, world_name |-> "W"]),
      Entry("UI", "Error", "E2", 3, [actor_name |-> <<"a">>, world_name |-> "W"]),
      Entry("AI", "Error", "E2", 2, [actor |-> <<"a", "b">>]),
      Entry("AI", "Warning", "E1", 3, [actor |-> <<>>]),
      Entry("AI", "Fatal", "E1", 1, EmptyDict),
      [event_name |-> "E1"],
      [channel |-> "AI", verbosity |-> "Trace", event_name |-> "E1",
       context |-> [actor_name |-> <<"a">>]] }

InvalidLine == [valid |-> FALSE]
EntryLine(e) == [valid |-> TRUE, entry |-> e]
LogLines == {InvalidLine} \cup {EntryLine(e) : e \in Entries}

\* the arguments main passes on from the command line
FilterArgs ==
    [channels : {{}, {"AI"}}, verbosity : {"", "Error"}, event_names : {{}, {"E1"}},
     after : {0, 2}, before : {0, 2}, actor : {<<>>, <<"a">>, <<"a", "b">>}]

\* lines 72-74
passes_channel(e, a) == a.channels = {} \/ get(e, "channel", "") \in a.channels

\* lines 59 and 76-79
passes_verbosity(e, a) ==
    get(verbosity_order, get(e, "verbosity", "Display"), 0)
        >= (IF a.verbosity # "" THEN get(verbosity_order, a.verbosity, 0) ELSE 0)

\* lines 81-83
passes_event(e, a) == a.event_names = {} \/ get(e, "event_name", "") \in a.event_names

\* lines 85-92
passes_time(e, a) ==
    \/ get(e, "timestamp", 0) = 0
    \/ /\ ~(a.after # 0 /\ get(e, "timestamp", 0) < a.after)
       /\ ~(a.before # 0 /\ get(e, "timestamp", 0) > a.before)

\* line 96: entry.get('context', {}).get('actor')
entry_actor(e) == get(get(e, "context", EmptyDict), "actor", <<>>)

\* lines 95-98
passes_actor(e, a) ==
    a.actor = <<>> \/ (entry_actor(e) # <<>> /\ IsInfix(a.actor, entry_actor(e)))

passes_filters(e, a) ==
    /\ passes_channel(e, a)
    /\ passes_verbosity(e, a)
    /\ passes_event(e, a)
    /\ passes_time(e, a)
    /\ passes_actor(e, a)

\* filter_logs is called on a session's files
FilterInit ==
    /\ CrawlIdle
    /\ LinkIdle
    /\ NormIdle
    /\ ConvIdle
    /\ log_lines \in UNION {[1..n -> LogLines] : n \in 0..MaxLines}
    /\ filter_args \in FilterArgs
    /\ line_no = 0
    /\ matching_entries = <<>>
    /\ fpc = "read"

\* lines 102-104: json.loads raises, the line is skipped
ReadInvalid ==
    /\ fpc = "read"
    /\ line_no < Len(log_lines)
    /\ ~log_lines[line_no + 1].valid
    /\ line_no' = line_no + 1
    /\ UNCHANGED <<log_lines, filter_args, matching_entries, fpc, crawl_only, link_vars,
                   norm_vars, conv_vars>>

\* one of the filters says continue
ReadFiltered ==
    /\ fpc = "read"
    /\ line_no < Len(log_lines)
    /\ log_lines[line_no + 1].valid
    /\ ~passes_filters(log_lines[line_no + 1].entry, filter_args)
    /\ line_no' = line_no + 1
    /\ UNCHANGED <<log_lines, filter_args, matching_entries, fpc, crawl_only, link_vars,
                   norm_vars, conv_vars>>

\* line 100: matching_entries.append(entry)
ReadMatching ==
    /\ fpc = "read"
    /\ line_no < Len(log_lines)
    /\ log_lines[line_no + 1].valid
    /\ passes_filters(log_lines[line_no + 1].entry, filter_args)
    /\ matching_entries' = Append(matching_entries, log_lines[line_no + 1].entry)
    /\ line_no' = line_no + 1
    /\ UNCHANGED <<log_lines, filter_args, fpc, crawl_only, link_vars, norm_vars, conv_vars>>

\* line 106: return matching_entries
FilterReturn ==
    /\ fpc = "read"
    /\ line_no = Len(log_lines)
    /\ fpc' = "done"
    /\ UNCHANGED <<log_lines, line_no, filter_args, matching_entries, crawl_only, link_vars,
                   norm_vars, conv_vars>>

FilterNext == ReadInvalid \/ ReadFiltered \/ ReadMatching \/ FilterReturn

FilterSpec == FilterInit /\ [][FilterNext]_vars

\* the entries of the valid lines, in reading order
RECURSIVE EntriesOf(_)
EntriesOf(ls) ==
    IF ls = <<>> THEN <<>>
    ELSE (IF Head(ls).valid THEN <<Head(ls).entry>> ELSE <<>>) \o EntriesOf(Tail(ls))

\* the actor name as the structured log format records it
ActorName(e) == get(get(e, "context", EmptyDict), "actor_name", <<>>)

\* C24: with an actor argument, filter_logs returns exactly the entries that
\* pass the other filters and whose context.actor_name contains the argument.
C24_ActorNameFilter ==
    (fpc = "done" /\ filter_args.actor # <<>>) =>
        matching_entries =
            SelectSeq(EntriesOf(log_lines),
                      LAMBDA e : /\ passes_channel(e, filter_args)
                                 /\ passes_verbosity(e, filter_args)
                                 /\ passes_event(e, filter_args)
                                 /\ passes_time(e, filter_args)
                                 /\ IsInfix(filter_args.actor, ActorName(e)))

====
